---- MODULE Spec2Model ----
(***************************************************************************)
(* Model of ocs_ci/ocs/pillowfight.py: the PillowFight workload class.     *)
(*                                                                         *)
(*   Spec         run_pillowfights: launch, the TimeoutSampler polling     *)
(*                loop over the pillowfight pods, and the collection of    *)
(*                the logs of the pods recorded in pods_info.              *)
(*   FairSpec     Spec with the fairness of a sequential program.          *)
(*   AnalyzeSpec  analyze_all over a logs directory left by a run.         *)
(*   SanitySpec   sanity_check applied to one metrics record.              *)
(*   PollSpec     one polling iteration from any state of the loop, with   *)
(*                the listing and the responses it was given recorded.     *)
(*   ParseSpec    parse_pillowfight_log applied to one text.               *)
(*                                                                         *)
(* Texts are sequences of one-character strings; NUL stands for the        *)
(* character "\x00" and LF for the newline.                                *)
(***************************************************************************)
EXTENDS Integers, Sequences, FiniteSets, TLC

VARIABLES
    pc,          \* position of the PillowFight object's user
    replicas,    \* self.replicas
    pods_info,   \* self.pods_info: insertion-ordered dict, as a sequence of [pod, info]
    elapsed,     \* seconds since the TimeoutSampler was started
    error,       \* the exception that left run_pillowfights, "none" if none
    files,       \* the files of the self.logs directory: name -> text
    fetched,     \* history: pod -> the text `oc logs` returned for it
    seenError,   \* history: the pod last observed as terminated with reason Error, 0 if none
    missing,     \* history: the field the latest poll found missing, "none" if none
    stats,       \* the record handed to sanity_check
    verdict,     \* outcome of the latest sanity_check
    analyzed,    \* history: paths analyze_all has read, in order
    checked,     \* history: records analyze_all handed to sanity_check, in order
    analysis,    \* outcome of analyze_all
    lastPoll,    \* history: what the latest polling iteration was given and counted
    log_text,    \* the text handed to parse_pillowfight_log
    ret_data     \* outcome of parse_pillowfight_log

vars == <<pc, replicas, pods_info, elapsed, error, files, fetched, seenError,
          missing, stats, verdict, analyzed, checked, analysis, lastPoll,
          log_text, ret_data>>

----------------------------------------------------------------------------
(* Bounds *)
MaxPods == 2
MaxSamples == 2
MaxReplicas == 2
MaxPolls == 3
MaxLines == 2

(* Program constants *)
WAIT_FOR_TIME == 1800
SLEEP == 9
MIN_ACCEPTABLE_OPS_PER_SEC == 2000
MAX_ACCEPTABLE_RESPONSE_TIME == 2000
STATUS_COMPLETED == "Completed"

NUL == "NUL"
LF == "\n"

Range(f) == {f[x] : x \in DOMAIN f}
Max(a, b) == IF a >= b THEN a ELSE b
Min(a, b) == IF a <= b THEN a ELSE b

\* seconds one iteration of the sampler takes: the sleep and the queries of
\* the body. The queries are taken to be slow enough for the deadline to
\* fall after MaxPolls iterations.
PollTime == Max(SLEEP, WAIT_FOR_TIME \div MaxPolls)

----------------------------------------------------------------------------
(* The cluster, as run_pillowfights sees it *)

\* names get_pod_name_by_pattern("pillowfight", ...) can return
PodNames == 1 .. MaxPods

\* a listing is a list of distinct pod names
Listings ==
    {l \in UNION {[1 .. n -> PodNames] : n \in 0 .. MaxPods} :
        \A i, j \in 1 .. Len(l) : i # j => l[i] # l[j]}

\* `oc get pods <pod> -o json`, reduced to the fields the scan reads
PodPending == [status |-> [phase |-> "Pending"]]
PodNoContainers == [status |-> [containerStatuses |-> <<>>]]
PodNoState == [status |-> [containerStatuses |-> <<[ready |-> FALSE]>>]]
PodWaiting ==
    [status |-> [containerStatuses |->
        <<[state |-> [waiting |-> [reason |-> "ContainerCreating"]]]>>]]
PodRunning ==
    [status |-> [containerStatuses |->
        <<[state |-> [running |-> [startedAt |-> "t"]]]>>]]
PodTerminated(reason) ==
    [status |-> [containerStatuses |->
        <<[state |-> [terminated |-> [reason |-> reason]]]>>]]

PodInfos ==
    {PodPending, PodNoContainers, PodNoState, PodWaiting, PodRunning,
     PodTerminated("Completed"), PodTerminated("Error")}

----------------------------------------------------------------------------
(* dict helpers *)

HasKey(d, k) == \E i \in 1 .. Len(d) : d[i].pod = k

\* rebinding the dict to {k: v}
DictRebind(d, k, v) == <<[pod |-> k, info |-> v]>>

\* dict.update({k: v}): an existing key keeps its place
DictUpdate(d, k, v) ==
    IF HasKey(d, k)
    THEN [i \in 1 .. Len(d) |-> IF d[i].pod = k THEN [pod |-> k, info |-> v] ELSE d[i]]
    ELSE Append(d, [pod |-> k, info |-> v])

Keys(d) == {d[i].pod : i \in 1 .. Len(d)}

----------------------------------------------------------------------------
(* run_pillowfights: the body of one polling iteration *)

\* a scan that counts and records a running pod as it does a completed one
ExaminePodCountsRunning(s, pf_pod, pod_info) ==
    IF "containerStatuses" \notin DOMAIN pod_info.status
    THEN [s EXCEPT !.exc = "KeyError", !.miss = "containerStatuses"]
    ELSE IF Len(pod_info.status.containerStatuses) = 0
    THEN [s EXCEPT !.exc = "IndexError", !.miss = "containerStatuses[0]"]
    ELSE IF "state" \notin DOMAIN pod_info.status.containerStatuses[1]
    THEN [s EXCEPT !.exc = "KeyError", !.miss = "state"]
    ELSE LET pf_status == pod_info.status.containerStatuses[1].state IN
         IF "terminated" \in DOMAIN pf_status
         THEN LET pf_completion_info == pf_status.terminated.reason IN
              IF pf_completion_info = STATUS_COMPLETED
              THEN [s EXCEPT !.counter = @ + 1,
                             !.info = DictUpdate(@, pf_pod, pf_completion_info)]
              ELSE [s EXCEPT !.seen = IF pf_completion_info = "Error"
                                      THEN pf_pod ELSE @]
         ELSE IF "running" \in DOMAIN pf_status
         THEN [s EXCEPT !.counter = @ + 1,
                        !.info = DictUpdate(@, pf_pod, "Running")]
         ELSE s

\* what examining one pod does to the scan state s =
\* [counter, info, exc, seen, miss]
ExaminePod(s, pf_pod, pod_info) ==
    IF "containerStatuses" \notin DOMAIN pod_info.status
    THEN [s EXCEPT !.exc = "KeyError", !.miss = "containerStatuses"]
    ELSE IF Len(pod_info.status.containerStatuses) = 0
    THEN [s EXCEPT !.exc = "IndexError", !.miss = "containerStatuses[0]"]
    ELSE IF "state" \notin DOMAIN pod_info.status.containerStatuses[1]
    THEN [s EXCEPT !.exc = "KeyError", !.miss = "state"]
    ELSE LET pf_status == pod_info.status.containerStatuses[1].state IN
         IF "terminated" \in DOMAIN pf_status
         THEN LET pf_completion_info == pf_status.terminated.reason IN
              IF pf_completion_info = STATUS_COMPLETED
              THEN [s EXCEPT !.counter = @ + 1,
                             !.info = DictUpdate(@, pf_pod, pf_completion_info)]
              ELSE [s EXCEPT !.seen = IF pf_completion_info = "Error"
                                      THEN pf_pod ELSE @]
         ELSE s

\* a scan that goes on to the next pod after an IndexError
RECURSIVE ScanFromResuming(_, _, _, _)
ScanFromResuming(s, pillowfight_pods, resp, i) ==
    IF i > Len(pillowfight_pods) \/ s.exc = "KeyError"
    THEN s
    ELSE ScanFromResuming(
            ExaminePod(s, pillowfight_pods[i], resp[pillowfight_pods[i]]),
            pillowfight_pods, resp, i + 1)

RECURSIVE ScanFrom(_, _, _, _)
ScanFrom(s, pillowfight_pods, resp, i) ==
    IF i > Len(pillowfight_pods) \/ s.exc # "none"
    THEN s
    ELSE ScanFrom(ExaminePod(s, pillowfight_pods[i], resp[pillowfight_pods[i]]),
                  pillowfight_pods, resp, i + 1)

\* a test that is met by more successes than instances
ExitTestAtLeast(counter, n) == counter >= n

\* line 115: if counter == self.replicas
ExitTest(counter, n) == counter = n

\* the for loop over one listing, counter starting at 0
Scan(info, seen, pillowfight_pods, resp) ==
    ScanFrom([counter |-> 0, info |-> info, exc |-> "none", seen |-> seen,
              miss |-> "none"],
             pillowfight_pods, resp, 1)

----------------------------------------------------------------------------
(* Text helpers *)

\* Replace as str.replace(old, new, 1) would do it
RECURSIVE ReplaceFirst(_, _, _)
ReplaceFirst(s, old, new) ==
    IF s = <<>> THEN <<>>
    ELSE IF Head(s) = old THEN new \o Tail(s)
    ELSE <<Head(s)>> \o ReplaceFirst(Tail(s), old, new)

\* str.replace(old, new) for a one-character old
RECURSIVE Replace(_, _, _)
Replace(s, old, new) ==
    IF s = <<>> THEN <<>>
    ELSE (IF Head(s) = old THEN new ELSE <<Head(s)>>) \o Replace(Tail(s), old, new)

\* f"{pod}.log"
LogName(pod) == <<pod, ".log">>

\* what `oc logs -f <pod>` can return
FetchTexts ==
    {<<>>, <<NUL>>, <<"a", LF>>, <<"a", NUL, "b">>, <<NUL, "a", NUL, NUL, LF>>}

----------------------------------------------------------------------------
(* str helpers of parse_pillowfight_log *)

TAB == "\t"
CR == "\r"
Whitespace == {" ", TAB, CR, LF}
Digits == <<"0", "1", "2", "3", "4", "5", "6", "7", "8", "9">>
IsDigit(c) == \E i \in 1 .. 10 : Digits[i] = c
DigitVal(c) == (CHOOSE i \in 1 .. 10 : Digits[i] = c) - 1

\* the character at index i (from 1), "" past the end
At(s, i) == IF i \in 1 .. Len(s) THEN s[i] ELSE ""

\* str.startswith
StartsWith(s, p) == Len(s) >= Len(p) /\ SubSeq(s, 1, Len(p)) = p

\* first index >= i whose character is not in set
RECURSIVE SkipWhile(_, _, _)
SkipWhile(s, i, set) ==
    IF i <= Len(s) /\ s[i] \in set THEN SkipWhile(s, i + 1, set) ELSE i

\* first index >= i whose character is in set, Len(s) + 1 if none
RECURSIVE SkipUntil(_, _, _)
SkipUntil(s, i, set) ==
    IF i <= Len(s) /\ s[i] \notin set THEN SkipUntil(s, i + 1, set) ELSE i

\* str.split(sep) for a one-character sep: empty fields are kept
RECURSIVE Split(_, _)
Split(s, sep) ==
    LET i == SkipUntil(s, 1, {sep}) IN
    IF i > Len(s) THEN <<s>>
    ELSE <<SubSeq(s, 1, i - 1)>> \o Split(SubSeq(s, i + 1, Len(s)), sep)

\* str.split(): fields are the maximal runs of non-whitespace
RECURSIVE SplitWs(_)
SplitWs(s) ==
    LET i == SkipWhile(s, 1, Whitespace)
        j == SkipUntil(s, i, Whitespace)
    IN IF i > Len(s) THEN <<>>
       ELSE <<SubSeq(s, i, j - 1)>> \o SplitWs(SubSeq(s, j, Len(s)))

\* str.strip()
RECURSIVE RStrip(_)
RStrip(s) ==
    IF s # <<>> /\ s[Len(s)] \in Whitespace
    THEN RStrip(SubSeq(s, 1, Len(s) - 1)) ELSE s
Strip(s) ==
    LET i == SkipWhile(s, 1, Whitespace) IN RStrip(SubSeq(s, i, Len(s)))

\* digits with single underscores between them, as int() accepts
RECURSIVE IsDigitString(_)
IsDigitString(s) ==
    /\ s # <<>>
    /\ IsDigit(s[1])
    /\ \/ Len(s) = 1
       \/ IsDigitString(Tail(s))
       \/ Len(s) >= 3 /\ s[2] = "_" /\ IsDigitString(SubSeq(s, 3, Len(s)))

RECURSIVE DigitsValue(_, _)
DigitsValue(s, acc) ==
    IF s = <<>> THEN acc
    ELSE IF s[1] = "_" THEN DigitsValue(Tail(s), acc)
    ELSE DigitsValue(Tail(s), 10 * acc + DigitVal(s[1]))

\* int(s): [ok |-> FALSE] stands for ValueError
ToInt(s) ==
    LET t == Strip(s)
        signed == t # <<>> /\ t[1] \in {"+", "-"}
        d == IF signed THEN Tail(t) ELSE t
    IN IF IsDigitString(d)
       THEN [ok |-> TRUE,
             val |-> IF signed /\ t[1] = "-" THEN 0 - DigitsValue(d, 0)
                     ELSE DigitsValue(d, 0)]
       ELSE [ok |-> FALSE, val |-> 0]

DigitSet == {Digits[i] : i \in 1 .. 10}

\* the pattern with an optional closing bar: "\\|#*\\|? - \\d+"
MatchesBucketClosedBar(dline) ==
    LET p1 == SkipWhile(dline, 2, DigitSet)
        p2 == SkipWhile(dline, p1, {" "})
        p3 == SkipWhile(dline, p2 + 2, DigitSet)
        p4 == SkipWhile(dline, p3, {" "})
        p5 == SkipWhile(dline, p4 + 5, {"#"})
        p6 == IF At(dline, p5) = "|" THEN p5 + 1 ELSE p5
    IN /\ At(dline, 1) = "["
       /\ p1 > 2
       /\ p2 > p1
       /\ At(dline, p2) = "-"
       /\ At(dline, p2 + 1) = " "
       /\ p3 > p2 + 2
       /\ At(dline, p4) = "]"
       /\ At(dline, p4 + 1) \in {"u", "m"}
       /\ At(dline, p4 + 2) = "s"
       /\ At(dline, p4 + 3) = " "
       /\ At(dline, p4 + 4) = "|"
       /\ At(dline, p6) = " "
       /\ At(dline, p6 + 1) = "-"
       /\ At(dline, p6 + 2) = " "
       /\ IsDigit(At(dline, p6 + 3))

\* re.match("^\\[\\d+ +- \\d+ *\\][um]s \\|#* - \\d+", dline)
MatchesBucket(dline) ==
    LET p1 == SkipWhile(dline, 2, DigitSet)
        p2 == SkipWhile(dline, p1, {" "})
        p3 == SkipWhile(dline, p2 + 2, DigitSet)
        p4 == SkipWhile(dline, p3, {" "})
        p5 == SkipWhile(dline, p4 + 5, {"#"})
    IN /\ At(dline, 1) = "["
       /\ p1 > 2
       /\ p2 > p1
       /\ At(dline, p2) = "-"
       /\ At(dline, p2 + 1) = " "
       /\ p3 > p2 + 2
       /\ At(dline, p4) = "]"
       /\ At(dline, p4 + 1) \in {"u", "m"}
       /\ At(dline, p4 + 2) = "s"
       /\ At(dline, p4 + 3) = " "
       /\ At(dline, p4 + 4) = "|"
       /\ At(dline, p5) = " "
       /\ At(dline, p5 + 1) = "-"
       /\ At(dline, p5 + 2) = " "
       /\ IsDigit(At(dline, p5 + 3))

\* the five replace calls of lines 201-202
Undecorate(dline) ==
    Replace(Replace(Replace(Replace(Replace(dline,
        "[", <<" ">>), "]", <<" ">>), "|", <<" ">>), "-", <<" ">>), "#", <<" ">>)

\* dict.setdefault(k, v): an existing entry is kept
DictSetDefault(h, k, v) ==
    [x \in DOMAIN h \cup {k} |-> IF x \in DOMAIN h THEN h[x] ELSE v]

\* dict item assignment
DictSet(h, k, v) == [x \in DOMAIN h \cup {k} |-> IF x = k THEN v ELSE h[x]]

----------------------------------------------------------------------------
(* parse_pillowfight_log *)

OPS_SEC == <<"O", "P", "S", "/", "S", "E", "C">>

\* the except clause of lines 210-211 without its log call: the
\* ValueError leaves parse_pillowfight_log
InvalidReraise(acc, dline) == [acc EXCEPT !.exc = "ValueError"]

\* the except clause of lines 210-211: the line is logged as invalid
Invalid(acc, dline) == [acc EXCEPT !.invalid = Append(@, dline)]

\* lines 206-208 with the scaling left out
NormalizeNever(i, unit) == i

\* lines 206-208: a bound in milliseconds becomes microseconds
Normalize(i, unit) == IF unit = <<"m", "s">> THEN i * 1000 ELSE i

\* the body of the for loop, lines 195-211, on
\* acc = [opspersec, resptimes, exc, invalid]; exc is the exception that
\* leaves the loop, invalid the lines logged at line 211
ParseLine(acc, dline) ==
    LET isOps == StartsWith(dline, OPS_SEC)
        dfields == Split(dline, " ")
        dnumb == ToInt(Strip(dfields[Len(dfields)]))
        replaced == Undecorate(dline)
        parts == SplitWs(replaced)
        i1 == ToInt(parts[1])
        i2 == ToInt(parts[2])
        number == ToInt(parts[4])
        afterOps == IF isOps
                    THEN [acc EXCEPT !.opspersec = Append(@, dnumb.val)]
                    ELSE acc
    IN IF isOps /\ ~dnumb.ok THEN Invalid(acc, dline)
       ELSE IF ~MatchesBucket(dline) THEN afterOps
       ELSE IF Len(parts) < 1 THEN [afterOps EXCEPT !.exc = "IndexError"]
       ELSE IF ~i1.ok THEN Invalid(afterOps, replaced)
       ELSE IF Len(parts) < 2 THEN [afterOps EXCEPT !.exc = "IndexError"]
       ELSE IF ~i2.ok THEN Invalid(afterOps, replaced)
       ELSE IF Len(parts) < 4 THEN [afterOps EXCEPT !.exc = "IndexError"]
       ELSE IF ~number.ok THEN Invalid(afterOps, replaced)
       ELSE [afterOps EXCEPT !.resptimes =
                DictSet(@, Normalize(i2.val, parts[3]),
                        [minindx |-> Normalize(i1.val, parts[3]),
                         number |-> number.val])]

\* the for loop of lines 194-211
RECURSIVE ParseLines(_, _)
ParseLines(acc, lines) ==
    IF lines = <<>> \/ acc.exc # "none" THEN acc
    ELSE ParseLines(ParseLine(acc, Head(lines)), Tail(lines))

\* lines 190-211: the lists and the loop
ParseRun(data_from_log) ==
    ParseLines([opspersec |-> <<>>, resptimes |-> <<>>, exc |-> "none",
                invalid |-> <<>>],
               Split(data_from_log, LF))

\* ret_data of lines 212-213
parse_pillowfight_log(data_from_log) ==
    LET r == ParseRun(data_from_log) IN
    [opspersec |-> r.opspersec, resptimes |-> r.resptimes]

----------------------------------------------------------------------------
(* sanity_check *)

\* min() of a list
RECURSIVE SeqMin(_)
SeqMin(s) == IF Len(s) = 1 THEN s[1] ELSE Min(s[1], SeqMin(Tail(s)))

\* max() of the keys of a dict
SetMax(S) == CHOOSE m \in S : \A x \in S : x <= m

ThroughputError == "Worst OPS/SEC value reported is"
LatencyError == "Worst response time reported is"

\* sanity_check with a floor division (//) for stat2
sanity_check_floordiv(st) ==
    IF st.opspersec = <<>>
    THEN [kind |-> "ValueError", value |-> <<0, 1>>]
    ELSE LET stat1 == SeqMin(st.opspersec) IN
         IF stat1 < MIN_ACCEPTABLE_OPS_PER_SEC
         THEN [kind |-> ThroughputError, value |-> <<stat1, 1>>]
         ELSE IF DOMAIN st.resptimes = {}
         THEN [kind |-> "ValueError", value |-> <<0, 1>>]
         ELSE LET top == SetMax(DOMAIN st.resptimes) IN
              IF top \div 1000 > MAX_ACCEPTABLE_RESPONSE_TIME
              THEN [kind |-> LatencyError, value |-> <<top \div 1000, 1>>]
              ELSE [kind |-> "pass", value |-> <<0, 1>>]

\* the outcome of sanity_check(stats): the exception raised, or "pass".
\* value is the number in the message, as <<numerator, denominator>>;
\* stat2 is the quotient of a true division.
sanity_check(st) ==
    IF st.opspersec = <<>>
    THEN [kind |-> "ValueError", value |-> <<0, 1>>]
    ELSE LET stat1 == SeqMin(st.opspersec) IN
         IF stat1 < MIN_ACCEPTABLE_OPS_PER_SEC
         THEN [kind |-> ThroughputError, value |-> <<stat1, 1>>]
         ELSE IF DOMAIN st.resptimes = {}
         THEN [kind |-> "ValueError", value |-> <<0, 1>>]
         ELSE LET top == SetMax(DOMAIN st.resptimes) IN
              IF top > MAX_ACCEPTABLE_RESPONSE_TIME * 1000
              THEN [kind |-> LatencyError, value |-> <<top, 1000>>]
              ELSE [kind |-> "pass", value |-> <<0, 1>>]

----------------------------------------------------------------------------
(* Persisted outputs analyze_all is run on *)

OpsGoodLine ==
    <<"O", "P", "S", "/", "S", "E", "C", " ", "2", "5", "0", "0">>
OpsLowLine ==
    <<"O", "P", "S", "/", "S", "E", "C", " ", "1", "5", "0", "0">>
BucketUsLine ==
    <<"[", "0", " ", "-", " ", "1", "0", "0", "]", "u", "s", " ", "|", "#",
      "#", "#", " ", "-", " ", "5">>
BucketSlowLine ==
    <<"[", "2", " ", "-", " ", "3", "0", "0", "0", "]", "m", "s", " ", "|",
      "#", " ", "-", " ", "1">>
NoiseLine ==
    <<"R", "u", "n", "n", "i", "n", "g", ".">>

Text2(l1, l2) == l1 \o <<LF>> \o l2 \o <<LF>>

AnalyzeTexts ==
    {<<>>,
     NoiseLine \o <<LF>>,
     OpsGoodLine \o <<LF>>,
     BucketSlowLine \o <<LF>>,
     Text2(OpsGoodLine, BucketUsLine),
     Text2(OpsLowLine, BucketUsLine),
     Text2(OpsGoodLine, BucketSlowLine),
     Text2(OpsLowLine, BucketSlowLine)}

----------------------------------------------------------------------------
(* Actions of run_pillowfights *)

NoStats == [opspersec |-> <<>>, resptimes |-> <<>>]

Init ==
    /\ pc = "init"
    /\ replicas = 0
    /\ pods_info = <<>>
    /\ elapsed = 0
    /\ error = "none"
    /\ files = <<>>
    /\ fetched = <<>>
    /\ seenError = 0
    /\ missing = "none"
    /\ stats = NoStats
    /\ verdict = [kind |-> "none"]
    /\ analyzed = <<>>
    /\ checked = <<>>
    /\ analysis = [status |-> "idle"]
    /\ lastPoll = [polled |-> FALSE]
    /\ log_text = <<>>
    /\ ret_data = [status |-> "none"]

\* lines 73-94: create the pods, reset pods_info, start the sampler
Start ==
    /\ pc = "init"
    /\ \E r \in 1 .. MaxReplicas : replicas' = r
    /\ pods_info' = <<>>
    /\ elapsed' = 0
    /\ pc' = "polling"
    /\ UNCHANGED <<error, files, fetched, seenError, missing, stats, verdict,
                   analyzed, checked, analysis,
                   lastPoll, log_text, ret_data>>

\* lines 103-118: the body of the loop for one listing and the pods' states
PollBody(pillowfight_pods, resp) ==
    LET s == Scan(pods_info, seenError, pillowfight_pods, resp) IN
    /\ pods_info' = s.info
    /\ seenError' = s.seen
    /\ missing' = s.miss
    /\ IF s.exc = "KeyError"
       THEN /\ pc' = "raised"
            /\ error' = "KeyError"
            /\ elapsed' = 0
       ELSE IF s.exc = "none" /\ ExitTest(s.counter, replicas)
       THEN /\ pc' = "collect"
            /\ error' = error
            /\ elapsed' = 0
       ELSE /\ pc' = "polling"
            /\ error' = error
            /\ elapsed' = elapsed + PollTime
    /\ UNCHANGED <<replicas, files, fetched, stats, verdict, analyzed, checked,
                   analysis, log_text, ret_data>>

\* lines 96-118: the sampler yields a listing, the body scans it
Poll ==
    /\ pc = "polling"
    /\ elapsed < WAIT_FOR_TIME
    /\ \E pillowfight_pods \in Listings :
       \E resp \in [Range(pillowfight_pods) -> PodInfos] :
        PollBody(pillowfight_pods, resp)
    /\ UNCHANGED lastPoll

\* the sampler raises once the timeout has elapsed
Timeout ==
    /\ pc = "polling"
    /\ elapsed >= WAIT_FOR_TIME
    /\ pc' = "raised"
    /\ error' = "TimeoutExpiredError"
    /\ elapsed' = 0
    /\ UNCHANGED <<replicas, pods_info, files, fetched, seenError, missing,
                   stats, verdict, analyzed, checked, analysis,
                   lastPoll, log_text, ret_data>>

\* index of the first entry of pods_info recorded as Error, 0 if none
FirstError(d) ==
    IF \E i \in 1 .. Len(d) : d[i].info = "Error"
    THEN CHOOSE i \in 1 .. Len(d) :
            /\ d[i].info = "Error"
            /\ \A j \in 1 .. i - 1 : d[j].info # "Error"
    ELSE 0

\* lines 120-133: fetch and persist the log of every Completed entry, in
\* dict order, raising at the first Error entry
Collect ==
    /\ pc = "collect"
    /\ LET stop == FirstError(pods_info)
           upto == IF stop = 0 THEN Len(pods_info) ELSE stop - 1
           done == {pods_info[i].pod :
                        i \in {j \in 1 .. upto : pods_info[j].info = "Completed"}}
       IN
       /\ \E out \in [done -> FetchTexts] :
            /\ fetched' = out
            /\ files' = [n \in {LogName(p) : p \in done} |->
                            LET p == CHOOSE q \in done : LogName(q) = n
                            IN Replace(out[p], NUL, <<>>)]
       /\ IF stop = 0
          THEN pc' = "returned" /\ error' = error
          ELSE pc' = "raised" /\ error' = "Pillowfight failed to complete"
    /\ UNCHANGED <<replicas, pods_info, elapsed, seenError, missing, stats,
                   verdict, analyzed, checked, analysis,
                   lastPoll, log_text, ret_data>>

Next == Start \/ Poll \/ Timeout \/ Collect

Spec == Init /\ [][Next]_vars

\* a sequential program keeps running while it has a step to take
FairSpec == Spec /\ WF_vars(Next)

----------------------------------------------------------------------------
(* One polling iteration on its own *)

\* the values of pods_info the loop can hold: distinct pods, all Completed
Recorded ==
    {[i \in 1 .. Len(l) |-> [pod |-> l[i], info |-> STATUS_COMPLETED]] :
        l \in Listings}

\* the loop between two iterations
InitPoll ==
    /\ pc = "polling"
    /\ replicas \in 1 .. MaxReplicas
    /\ pods_info \in Recorded
    /\ elapsed = Len(pods_info) * PollTime
    /\ error = "none"
    /\ files = <<>>
    /\ fetched = <<>>
    /\ seenError = 0
    /\ missing = "none"
    /\ stats = NoStats
    /\ verdict = [kind |-> "none"]
    /\ analyzed = <<>>
    /\ checked = <<>>
    /\ analysis = [status |-> "idle"]
    /\ lastPoll = [polled |-> FALSE]
    /\ log_text = <<>>
    /\ ret_data = [status |-> "none"]

\* lines 96-118 once, keeping what the iteration was given and its counter
PollOnce ==
    /\ pc = "polling"
    /\ elapsed < WAIT_FOR_TIME
    /\ ~lastPoll.polled
    /\ \E pillowfight_pods \in Listings :
       \E resp \in [Range(pillowfight_pods) -> PodInfos] :
        /\ PollBody(pillowfight_pods, resp)
        /\ lastPoll' =
            [polled |-> TRUE,
             listing |-> pillowfight_pods,
             resp |-> resp,
             before |-> pods_info,
             counter |-> Scan(pods_info, seenError, pillowfight_pods, resp).counter]

NextPoll == PollOnce

PollSpec == InitPoll /\ [][NextPoll]_vars

----------------------------------------------------------------------------
(* analyze_all *)

\* the orders listdir can return the names of S in
Orders(S) ==
    {l \in [1 .. Cardinality(S) -> S] :
        \A i, j \in 1 .. Cardinality(S) : i # j => l[i] # l[j]}

\* the for loop of lines 140-146 from the i-th path on: an exception of
\* sanity_check leaves the loop
RECURSIVE AnalyzeFrom(_, _, _, _, _)
AnalyzeFrom(order, i, fs, an, ch) ==
    IF i > Len(order)
    THEN [analyzed |-> an, checked |-> ch,
          analysis |-> [status |-> "returned",
                        error |-> [kind |-> "pass", value |-> <<0, 1>>]]]
    ELSE LET log_data == parse_pillowfight_log(fs[order[i]])
             v == sanity_check(log_data)
         IN IF v.kind # "pass"
            THEN [analyzed |-> Append(an, order[i]),
                  checked |-> Append(ch, log_data),
                  analysis |-> [status |-> "raised", error |-> v]]
            ELSE AnalyzeFrom(order, i + 1, fs, Append(an, order[i]),
                             Append(ch, log_data))

AnalyzeAll ==
    /\ pc \in {"init", "returned"}
    /\ analysis.status = "idle"
    /\ \E order \in Orders(DOMAIN files) :
        LET r == AnalyzeFrom(order, 1, files, <<>>, <<>>) IN
        /\ analyzed' = r.analyzed
        /\ checked' = r.checked
        /\ analysis' = r.analysis
    /\ UNCHANGED <<pc, replicas, pods_info, elapsed, error, files, fetched,
                   seenError, missing, stats, verdict,
                   lastPoll, log_text, ret_data>>

\* the entries run_pillowfights has recorded when the pods of P, listed in
\* name order, completed
RECURSIVE CompletedEntries(_)
CompletedEntries(P) ==
    IF P = {} THEN <<>>
    ELSE LET top == SetMax(P) IN
         Append(CompletedEntries(P \ {top}), [pod |-> top, info |-> "Completed"])

\* a PillowFight object whose logs directory is empty (no run yet) or holds
\* the outputs a run persisted
InitAnalyze ==
    \E P \in SUBSET PodNames :
        /\ pc = IF P = {} THEN "init" ELSE "returned"
        /\ replicas = Cardinality(P)
        /\ pods_info = CompletedEntries(P)
        /\ elapsed = 0
        /\ error = "none"
        /\ files \in [{LogName(q) : q \in P} -> AnalyzeTexts]
        /\ fetched = [q \in P |-> files[LogName(q)]]
        /\ seenError = 0
        /\ missing = "none"
        /\ stats = NoStats
        /\ verdict = [kind |-> "none"]
        /\ analyzed = <<>>
        /\ checked = <<>>
        /\ analysis = [status |-> "idle"]
        /\ lastPoll = [polled |-> FALSE]
        /\ log_text = <<>>
        /\ ret_data = [status |-> "none"]

NextAnalyze == AnalyzeAll

AnalyzeSpec == InitAnalyze /\ [][NextAnalyze]_vars

----------------------------------------------------------------------------
(* sanity_check on its own *)

OpsSamples ==
    {MIN_ACCEPTABLE_OPS_PER_SEC - 1, MIN_ACCEPTABLE_OPS_PER_SEC,
     MIN_ACCEPTABLE_OPS_PER_SEC + 1}
RespKeys ==
    {MAX_ACCEPTABLE_RESPONSE_TIME * 1000 - 1, MAX_ACCEPTABLE_RESPONSE_TIME * 1000,
     MAX_ACCEPTABLE_RESPONSE_TIME * 1000 + 1,
     MAX_ACCEPTABLE_RESPONSE_TIME * 1000 + 1000}

SanityRecords ==
    {[opspersec |-> o, resptimes |-> [k \in K |-> [minindx |-> 0, number |-> 1]]] :
        o \in UNION {[1 .. n -> OpsSamples] : n \in 0 .. MaxSamples},
        K \in SUBSET RespKeys}

InitSanity ==
    /\ pc = "sanity"
    /\ replicas = 0
    /\ pods_info = <<>>
    /\ elapsed = 0
    /\ error = "none"
    /\ files = <<>>
    /\ fetched = <<>>
    /\ seenError = 0
    /\ missing = "none"
    /\ stats \in SanityRecords
    /\ verdict = [kind |-> "none"]
    /\ analyzed = <<>>
    /\ checked = <<>>
    /\ analysis = [status |-> "idle"]
    /\ lastPoll = [polled |-> FALSE]
    /\ log_text = <<>>
    /\ ret_data = [status |-> "none"]

SanityCheck ==
    /\ pc = "sanity"
    /\ verdict.kind = "none"
    /\ verdict' = sanity_check(stats)
    /\ UNCHANGED <<pc, replicas, pods_info, elapsed, error, files, fetched,
                   seenError, missing, stats, analyzed, checked, analysis,
                   lastPoll, log_text, ret_data>>

NextSanity == SanityCheck

SanitySpec == InitSanity /\ [][NextSanity]_vars

----------------------------------------------------------------------------
(* parse_pillowfight_log on its own *)

\* str(n) for n >= 0
RECURSIVE DecStr(_)
DecStr(n) ==
    IF n < 10 THEN <<Digits[n + 1]>>
    ELSE DecStr(n \div 10) \o <<Digits[(n % 10) + 1]>>

RECURSIVE Hashes(_)
Hashes(n) == IF n = 0 THEN <<>> ELSE <<"#">> \o Hashes(n - 1)

US == <<"u", "s">>
MS == <<"m", "s">>

\* an OPS/SEC line of the log: the marker, a space, the number, then trail
OpsLine(n, trail) == OPS_SEC \o <<" ">> \o DecStr(n) \o trail

\* a histogram line of the log for the bucket b, the bar followed by close
BucketLine(b, close) ==
    <<"[">> \o DecStr(b.lo) \o <<" ", "-", " ">> \o DecStr(b.hi) \o <<"]">>
        \o b.unit \o <<" ", "|">> \o Hashes(b.fill) \o close
        \o <<" ", "-", " ">> \o DecStr(b.count)

OpsValues == {1500, 2500}
OpsTrails == {<<>>, <<" ">>, <<TAB>>}
Buckets ==
    {[lo |-> 0, hi |-> 100, unit |-> US, fill |-> 3, count |-> 5],
     [lo |-> 1, hi |-> 3, unit |-> MS, fill |-> 1, count |-> 2],
     [lo |-> 5, hi |-> 3000, unit |-> US, fill |-> 0, count |-> 4],
     [lo |-> 7, hi |-> 1, unit |-> US, fill |-> 2, count |-> 9]}
DocBucket == [lo |-> 0, hi |-> 100, unit |-> US, fill |-> 3, count |-> 5]

OpsAbcLine == OPS_SEC \o <<" ", "a", "b", "c">>
BadCountLine == BucketLine(DocBucket, <<>>) \o <<"x">>

\* the lines the texts are made of
LogLines ==
    {OpsLine(1500, <<>>), OpsLine(2500, <<>>), OpsLine(2500, <<" ">>),
     OpsLine(2500, <<TAB>>), OpsAbcLine, BadCountLine, NoiseLine, <<>>,
     BucketLine(DocBucket, <<"|">>)}
        \cup {BucketLine(b, <<>>) : b \in Buckets}

\* "\n".join(lines)
RECURSIVE JoinLines(_)
JoinLines(lines) ==
    IF lines = <<>> THEN <<>>
    ELSE IF Len(lines) = 1 THEN lines[1]
    ELSE lines[1] \o <<LF>> \o JoinLines(Tail(lines))

\* the scenario of the documentation, and the same with the bar left open
DocText == JoinLines(<<OpsLine(1500, <<>>), BucketLine(DocBucket, <<"|">>), <<>>>>)
OpenText == JoinLines(<<OpsLine(1500, <<>>), BucketLine(DocBucket, <<>>), <<>>>>)

ParseTexts ==
    {JoinLines(ls) : ls \in UNION {[1 .. n -> LogLines] : n \in 0 .. MaxLines}}
        \cup {DocText, OpenText}

InitParse ==
    /\ pc = "parse"
    /\ replicas = 0
    /\ pods_info = <<>>
    /\ elapsed = 0
    /\ error = "none"
    /\ files = <<>>
    /\ fetched = <<>>
    /\ seenError = 0
    /\ missing = "none"
    /\ stats = NoStats
    /\ verdict = [kind |-> "none"]
    /\ analyzed = <<>>
    /\ checked = <<>>
    /\ analysis = [status |-> "idle"]
    /\ lastPoll = [polled |-> FALSE]
    /\ log_text \in ParseTexts
    /\ ret_data = [status |-> "none"]

\* parse_pillowfight_log(log_text)
ParseLog ==
    /\ pc = "parse"
    /\ LET r == ParseRun(log_text) IN
       ret_data' = [status |-> IF r.exc = "none" THEN "returned" ELSE "raised",
                    exc |-> r.exc,
                    opspersec |-> r.opspersec,
                    resptimes |-> r.resptimes,
                    invalid |-> r.invalid]
    /\ pc' = "parsed"
    /\ UNCHANGED <<replicas, pods_info, elapsed, error, files, fetched,
                   seenError, missing, stats, verdict, analyzed, checked,
                   analysis, lastPoll, log_text>>

NextParse == ParseLog

ParseSpec == InitParse /\ [][NextParse]_vars

----------------------------------------------------------------------------
(* Properties *)

Completed(d) == {d[i].pod : i \in {j \in 1 .. Len(d) : d[j].info = "Completed"}}
LoopExited == pc \in {"collect", "returned"}
InstanceFailure == "Pillowfight failed to complete"

\* C1: while the polling loop is still running, the number of instances
\* recorded as Completed in pods_info differs from replicas; the loop ends
\* as soon as the two are equal.
C1_EndsWhenCountReached ==
    pc = "polling" => Cardinality(Completed(pods_info)) # replicas

\* C2: once an instance has been observed as terminated with reason Error,
\* run_pillowfights has aborted with "Pillowfight failed to complete".
C2_AbortsOnError ==
    seenError # 0 => pc = "raised" /\ error = InstanceFailure

\* C3: an instance observed as terminated with reason Error is recorded in
\* pods_info with the failure classification.
C3_ErrorRecorded ==
    seenError # 0 =>
        \E i \in 1 .. Len(pods_info) :
            pods_info[i].pod = seenError /\ pods_info[i].info = "Error"

\* C4: the polling loop eventually ends, and it ends either by the
\* successful exit or by the timeout failure of the sampler.
C4_EndsBySuccessOrTimeout ==
    <>(LoopExited \/ error = "TimeoutExpiredError")

\* C5: a poll that finds a field of a status response missing raises
\* nothing out of run_pillowfights and leaves the loop polling.
C5_MissingFieldTolerated ==
    [][(pc = "polling" /\ elapsed < WAIT_FOR_TIME /\ missing' # "none")
            => (pc' = "polling" /\ error' = "none")]_vars

\* C6: when the polling loop has exited successfully pods_info holds
\* exactly replicas entries, all of them Completed.
C6_ExactlyReplicasOnExit ==
    LoopExited =>
        /\ Len(pods_info) = replicas
        /\ \A i \in 1 .. Len(pods_info) : pods_info[i].info = "Completed"

NotNul(c) == c # NUL

\* C7: when run_pillowfights has returned normally, the logs directory
\* holds one file <pod>.log for every pod recorded as Completed and no
\* other file, and each file is the text fetched for its pod without the
\* null bytes.
C7_LogsOfSuccesses ==
    pc = "returned" =>
        LET S == Completed(pods_info) IN
        /\ \A p, q \in S : LogName(p) = LogName(q) => p = q
        /\ DOMAIN files = {LogName(p) : p \in S}
        /\ DOMAIN fetched = S
        /\ \A p \in S : files[LogName(p)] = SelectSeq(fetched[p], NotNul)

\* a run returned with two logs, one of which had several null bytes
C7_Witness ==
    /\ pc = "returned"
    /\ Cardinality(DOMAIN fetched) >= 2
    /\ \E p \in DOMAIN fetched :
        Len(fetched[p]) - Len(SelectSeq(fetched[p], NotNul)) >= 2

NonEmptyStats == stats.opspersec # <<>> /\ DOMAIN stats.resptimes # {}
BelowFloor(rec) ==
    \E i \in 1 .. Len(rec.opspersec) :
        rec.opspersec[i] < MIN_ACCEPTABLE_OPS_PER_SEC
AboveCeiling(rec) ==
    \E k \in DOMAIN rec.resptimes : k > MAX_ACCEPTABLE_RESPONSE_TIME * 1000

\* C8 as stated: on a non-empty record sanity_check raises the throughput
\* error iff the least sample is below the floor, raises the latency error
\* iff the greatest key is above the ceiling, and passes otherwise.
C8_EachErrorIffItsThreshold ==
    verdict.kind # "none" /\ NonEmptyStats =>
        /\ verdict.kind = ThroughputError <=> BelowFloor(stats)
        /\ verdict.kind = LatencyError <=> AboveCeiling(stats)
        /\ verdict.kind = "pass" <=> ~BelowFloor(stats) /\ ~AboveCeiling(stats)

\* C8 (amended): on a non-empty record sanity_check raises the throughput
\* error, with the least sample, iff the least sample is below the floor;
\* raises the latency error, with the greatest key over 1000, iff the least
\* sample is not below the floor and the greatest key is above the ceiling;
\* and passes iff neither threshold is violated.
C8_FirstViolationReported ==
    verdict.kind # "none" /\ NonEmptyStats =>
        /\ verdict.kind = ThroughputError <=> BelowFloor(stats)
        /\ verdict.kind = LatencyError <=> AboveCeiling(stats) /\ ~BelowFloor(stats)
        /\ verdict.kind = "pass" <=> ~BelowFloor(stats) /\ ~AboveCeiling(stats)
        /\ verdict.kind = ThroughputError =>
            /\ verdict.value[2] = 1
            /\ \E i \in 1 .. Len(stats.opspersec) : stats.opspersec[i] = verdict.value[1]
            /\ \A i \in 1 .. Len(stats.opspersec) : stats.opspersec[i] >= verdict.value[1]
        /\ verdict.kind = LatencyError =>
            /\ verdict.value[2] = 1000
            /\ verdict.value[1] \in DOMAIN stats.resptimes
            /\ \A k \in DOMAIN stats.resptimes : k <= verdict.value[1]

\* sanity_check has run on a record that violates both thresholds
C8_Witness ==
    /\ verdict.kind = ThroughputError
    /\ NonEmptyStats
    /\ AboveCeiling(stats)

Violates(rec) == BelowFloor(rec) \/ AboveCeiling(rec)
RecordOf(name) == parse_pillowfight_log(files[name])

\* C9: analyze_all returns normally only if no persisted output's record
\* violates a threshold; the first analyzed output whose record violates a
\* threshold is the last one analyzed, and analyze_all raises there the error
\* that names the metric and its value.
C9_AbortsAtFirstViolation ==
    analysis.status # "idle" =>
        /\ analysis.status = "returned" =>
            \A n \in DOMAIN files : ~Violates(RecordOf(n))
        /\ \A i \in 1 .. Len(analyzed) :
            (/\ Violates(RecordOf(analyzed[i]))
             /\ \A j \in 1 .. i - 1 : ~Violates(RecordOf(analyzed[j])))
            => /\ i = Len(analyzed)
               /\ analysis.status = "raised"
               /\ analysis.error.kind \in {ThroughputError, LatencyError}

\* C10: no record analyze_all hands to sanity_check has an empty opspersec
\* list or an empty resptimes mapping.
C10_NeverChecksEmptyRecord ==
    \A i \in 1 .. Len(checked) :
        checked[i].opspersec # <<>> /\ DOMAIN checked[i].resptimes # {}

TextLines == Split(log_text, LF)
Parsed == pc = "parsed"

\* the lines of the palette by what they are
PlainOpsLine(line) ==
    \E n \in OpsValues, trail \in {<<>>, <<TAB>>} : line = OpsLine(n, trail)
WellFormedOpsLine(line) ==
    \E n \in OpsValues, trail \in OpsTrails : line = OpsLine(n, trail)
OpsValueOf(line) ==
    CHOOSE n \in OpsValues : \E trail \in OpsTrails : line = OpsLine(n, trail)
OpenBucketLine(line) == \E b \in Buckets : line = BucketLine(b, <<>>)
BucketOf(line) == CHOOSE b \in Buckets : line = BucketLine(b, <<>>)
FailsConversion(line) ==
    line \in {OpsAbcLine, BadCountLine} \cup {OpsLine(n, <<" ">>) : n \in OpsValues}

KeyOf(b) == IF b.unit = MS THEN b.hi * 1000 ELSE b.hi
EntryOf(b) ==
    [minindx |-> IF b.unit = MS THEN b.lo * 1000 ELSE b.lo, number |-> b.count]

OpenBucketIndexes == {i \in DOMAIN TextLines : OpenBucketLine(TextLines[i])}

\* C11: parse_pillowfight_log returns for every text; the lines that match
\* no pattern or fail a numeric conversion add nothing, the lines after them
\* are still parsed, and the empty text gives an empty list and mapping.
C11_NeverRaises ==
    Parsed =>
        /\ ret_data.status = "returned"
        /\ Len(ret_data.opspersec) =
            Cardinality({i \in DOMAIN TextLines : PlainOpsLine(TextLines[i])})
        /\ DOMAIN ret_data.resptimes =
            {KeyOf(BucketOf(TextLines[i])) : i \in OpenBucketIndexes}
        /\ Len(ret_data.invalid) =
            Cardinality({i \in DOMAIN TextLines : FailsConversion(TextLines[i])})
        /\ log_text = <<>> =>
            ret_data.opspersec = <<>> /\ DOMAIN ret_data.resptimes = {}

\* a line that fails its conversion was followed by lines that were parsed
C11_Witness ==
    /\ Parsed
    /\ Len(TextLines) >= 2
    /\ TextLines[1] \in {OpsAbcLine, BadCountLine}
    /\ PlainOpsLine(TextLines[2]) \/ OpenBucketLine(TextLines[2])
    /\ ret_data.opspersec # <<>> \/ DOMAIN ret_data.resptimes # {}

RECURSIVE ExpectedOps(_)
ExpectedOps(lines) ==
    IF lines = <<>> THEN <<>>
    ELSE (IF WellFormedOpsLine(Head(lines)) THEN <<OpsValueOf(Head(lines))>>
          ELSE <<>>) \o ExpectedOps(Tail(lines))

\* C12: opspersec is the list of the integers of the well-formed OPS/SEC
\* lines of the text, trailing whitespace allowed, in the order of the text.
C12_OnePerWellFormedLine ==
    Parsed => ret_data.opspersec = ExpectedOps(TextLines)

ParsedRecord == [opspersec |-> ret_data.opspersec, resptimes |-> ret_data.resptimes]
DocEntry == 100 :> [minindx |-> 0, number |-> 5]

\* C13 as stated: a bucket line whose bar is closed by a second "|" is
\* stored, and the documented scenario gives opspersec = [1500],
\* resptimes = {100: {minindx: 0, number: 5}} and a throughput failure.
C13_ClosedBarStored ==
    Parsed =>
        /\ \A i \in DOMAIN TextLines : \A b \in Buckets :
            TextLines[i] = BucketLine(b, <<"|">>) => KeyOf(b) \in DOMAIN ret_data.resptimes
        /\ log_text = DocText =>
            /\ ret_data.opspersec = <<1500>>
            /\ ret_data.resptimes = DocEntry
            /\ sanity_check(ParsedRecord).kind = ThroughputError

\* C13 (amended): a bucket line whose bar is left open is stored, one whose
\* bar is closed by a second "|" is not; the documented scenario gives
\* opspersec = [1500] and an empty resptimes, the same text with the bar left
\* open gives resptimes = {100: {minindx: 0, number: 5}}, and validation
\* fails on the throughput floor for both.
C13_OpenBarStored ==
    Parsed =>
        /\ \A i \in OpenBucketIndexes :
            KeyOf(BucketOf(TextLines[i])) \in DOMAIN ret_data.resptimes
        /\ OpenBucketIndexes = {} => DOMAIN ret_data.resptimes = {}
        /\ log_text = DocText =>
            /\ ret_data.opspersec = <<1500>>
            /\ DOMAIN ret_data.resptimes = {}
            /\ sanity_check(ParsedRecord) = [kind |-> ThroughputError, value |-> <<1500, 1>>]
        /\ log_text = OpenText =>
            /\ ret_data.opspersec = <<1500>>
            /\ ret_data.resptimes = DocEntry
            /\ sanity_check(ParsedRecord) = [kind |-> ThroughputError, value |-> <<1500, 1>>]

\* the documented scenario has been parsed
C13_Witness == Parsed /\ log_text = DocText

\* index of the last stored line with the key k
LastWithKey(k) ==
    CHOOSE i \in OpenBucketIndexes :
        /\ KeyOf(BucketOf(TextLines[i])) = k
        /\ \A j \in OpenBucketIndexes :
            KeyOf(BucketOf(TextLines[j])) = k => j <= i

\* C14: the entry of every key is that of the last stored line with this
\* key, and resptimes has one entry per distinct key.
C14_LastLineWins ==
    Parsed =>
        /\ \A i \in OpenBucketIndexes :
            LET k == KeyOf(BucketOf(TextLines[i])) IN
            /\ k \in DOMAIN ret_data.resptimes
            /\ ret_data.resptimes[k] = EntryOf(BucketOf(TextLines[LastWithKey(k)]))
        /\ Cardinality(DOMAIN ret_data.resptimes) =
            Cardinality({KeyOf(BucketOf(TextLines[i])) : i \in OpenBucketIndexes})

\* a millisecond line and a microsecond line with the same key were parsed
C14_Witness ==
    /\ Parsed
    /\ \E i, j \in OpenBucketIndexes :
        LET b == BucketOf(TextLines[i])
            c == BucketOf(TextLines[j])
        IN /\ i < j
           /\ b.unit # c.unit
           /\ KeyOf(b) = KeyOf(c)
           /\ EntryOf(b) # EntryOf(c)
           /\ ret_data.resptimes[KeyOf(c)] = EntryOf(c)

\* C15: a stored millisecond line is kept under its upper bound times 1000
\* with its lower bound times 1000 and its count as written; a stored
\* microsecond line is kept under its bounds as written.
C15_MillisecondsScaled ==
    Parsed =>
        \A i \in OpenBucketIndexes :
            LET b == BucketOf(TextLines[i])
                k == IF b.unit = MS THEN 1000 * b.hi ELSE b.hi
                others == {j \in OpenBucketIndexes \ {i} :
                              KeyOf(BucketOf(TextLines[j])) = k}
            IN /\ k \in DOMAIN ret_data.resptimes
               /\ others = {} =>
                    /\ ret_data.resptimes[k].minindx =
                        (IF b.unit = MS THEN 1000 * b.lo ELSE b.lo)
                    /\ ret_data.resptimes[k].number = b.count

\* a millisecond line and a microsecond line were stored
C15_Witness ==
    /\ Parsed
    /\ \E i, j \in OpenBucketIndexes :
        /\ BucketOf(TextLines[i]).unit = MS
        /\ BucketOf(TextLines[j]).unit = US
        /\ KeyOf(BucketOf(TextLines[i])) # KeyOf(BucketOf(TextLines[j]))
    /\ 3000 \in DOMAIN ret_data.resptimes
    /\ ret_data.resptimes[3000].minindx = 1000

\* C16: in the record returned, the lower bound of every entry is at most
\* its key.
C16_LowerBoundAtMostKey ==
    Parsed =>
        \A k \in DOMAIN ret_data.resptimes : ret_data.resptimes[k].minindx <= k

\* the pods' states of the observed iteration by what they are
Polled == lastPoll.polled
Listed == 1 .. Len(lastPoll.listing)
StateOf(i) == lastPoll.resp[lastPoll.listing[i]]
IsCompleted(i) == StateOf(i) = PodTerminated("Completed")
IsQuiet(i) == StateOf(i) \in {PodRunning, PodWaiting}
LacksIndex(i) == StateOf(i) = PodNoContainers
LacksKey(i) == StateOf(i) \in {PodPending, PodNoState}
LacksField(i) == LacksIndex(i) \/ LacksKey(i)
CompletedListed == {lastPoll.listing[i] : i \in {j \in Listed : IsCompleted(j)}}

\* C17: an iteration keeps every entry of pods_info as it was, adds entries
\* only after them and only once per pod, and changes nothing when every
\* success it observes is already recorded.
C17_OutcomesOnlyGrow ==
    Polled =>
        /\ Len(pods_info) >= Len(lastPoll.before)
        /\ \A i \in 1 .. Len(lastPoll.before) : pods_info[i] = lastPoll.before[i]
        /\ \A i, j \in 1 .. Len(pods_info) :
            pods_info[i].pod = pods_info[j].pod => i = j
        /\ CompletedListed \subseteq Keys(lastPoll.before) => pods_info = lastPoll.before

\* a recorded success was observed again next to an unlisted recorded one
C17_Witness ==
    /\ Polled
    /\ CompletedListed # {}
    /\ CompletedListed \subseteq Keys(lastPoll.before)
    /\ Keys(lastPoll.before) \ CompletedListed # {}
    /\ pods_info = lastPoll.before

\* C18: a pod found running or waiting raises nothing, is not recorded and
\* is not counted: in an iteration where no pod lacks a field the counter is
\* the number of Completed pods listed and pods_info gains exactly those.
C18_RunningIsNeutral ==
    Polled /\ (\A i \in Listed : ~LacksField(i)) =>
        /\ pc # "raised"
        /\ error = "none"
        /\ lastPoll.counter = Cardinality(CompletedListed)
        /\ Keys(pods_info) = Keys(lastPoll.before) \cup CompletedListed
        /\ \A i \in 1 .. Len(pods_info) : pods_info[i].info = STATUS_COMPLETED
        /\ (\A i \in Listed : IsQuiet(i)) =>
            /\ pods_info = lastPoll.before
            /\ lastPoll.counter = 0
            /\ pc = "polling"

\* a running pod was examined before a completed one
C18_Witness ==
    /\ Polled
    /\ \E i, j \in Listed :
        /\ i < j
        /\ StateOf(i) = PodRunning
        /\ IsCompleted(j)
    /\ lastPoll.counter = 1
    /\ pc \in {"polling", "collect"}

\* C19: the loop is left for the collection exactly when no pod of the
\* listing lacks a field and the number of Completed pods in the listing is
\* the replica count; successes recorded earlier and not listed do not
\* count, and more Completed pods than replicas do not leave the loop.
C19_ExitOnExactCountOfThisPoll ==
    Polled =>
        /\ pc = "collect" <=>
            /\ \A i \in Listed : ~LacksField(i)
            /\ Cardinality(CompletedListed) = replicas
        /\ lastPoll.counter <= Cardinality(CompletedListed)
        /\ Cardinality(CompletedListed) > replicas => pc # "collect"
        /\ Cardinality(CompletedListed) < replicas => pc # "collect"

\* no pod lacked a field, enough successes are recorded, and the loop goes on
C19_Witness ==
    /\ Polled
    /\ \A i \in Listed : ~LacksField(i)
    /\ Cardinality(Keys(pods_info)) >= replicas
    /\ \/ Cardinality(CompletedListed) > replicas
       \/ Cardinality(CompletedListed) < replicas
    /\ pc = "polling"

\* index of the first listed pod that lacks a field, 0 if none
FirstLacking ==
    IF \E i \in Listed : LacksField(i)
    THEN CHOOSE i \in Listed : LacksField(i) /\ \A j \in 1 .. i - 1 : ~LacksField(j)
    ELSE 0

\* C20: when the first pod that lacks a field has an empty containerStatuses
\* list, the loop goes on without an error, the success test is not made,
\* the Completed pods listed before it are recorded and the pods listed
\* after it are not.
C20_IndexErrorAbandonsIteration ==
    Polled /\ FirstLacking # 0 /\ LacksIndex(FirstLacking) =>
        /\ pc = "polling"
        /\ error = "none"
        /\ missing = "containerStatuses[0]"
        /\ Keys(pods_info) = Keys(lastPoll.before) \cup
            {lastPoll.listing[j] : j \in {n \in 1 .. FirstLacking - 1 : IsCompleted(n)}}
        /\ \A j \in FirstLacking + 1 .. Len(lastPoll.listing) :
            lastPoll.listing[j] \notin Keys(lastPoll.before)
                => lastPoll.listing[j] \notin Keys(pods_info)

\* the count was reached before the pod with the empty list, or a Completed
\* pod was listed after it
C20_Witness ==
    /\ Polled
    /\ FirstLacking # 0
    /\ LacksIndex(FirstLacking)
    /\ \/ /\ lastPoll.counter = replicas
          /\ Keys(pods_info) # Keys(lastPoll.before)
       \/ \E j \in FirstLacking + 1 .. Len(lastPoll.listing) :
            IsCompleted(j) /\ lastPoll.listing[j] \notin Keys(pods_info)
    /\ pc = "polling"

====
